---- MODULE Spec2Model ----
(***************************************************************************)
(* A model of RAG_TG_MAI: the Milvus collection wrapper, the indexing      *)
(* pipeline, the retrieval/answer service, the GigaChat retry loop and the *)
(* HTTP handlers that call them.                                           *)
(*                                                                         *)
(* Optional[T] arguments are sets of at most one element: None is {} and a *)
(* supplied value x is {x}.  Texts are sequences of tokens; "_" is a       *)
(* whitespace token and "P" the blank line ("\n\n") that separates blocks. *)
(***************************************************************************)
EXTENDS Integers, Sequences, FiniteSets, TLC

VARIABLES
    store,      \* rows of the collection, every insert and delete applied
    durable,    \* rows as of the last collection.flush()
    nextId,     \* next auto_id primary key
    service,    \* RAGService fields: context_limit
    llm,        \* GigaChatClient fields: retries, backoff_sec
    tokenizer,  \* Tokenizer fields: max_tokens, overlap; None when construction failed
    schema,     \* schema of the collection on the server, None while it does not exist
    running,    \* index_file calls in progress: the step each caller is at
    last,       \* the call that completed last: arguments, outcome, collection calls
    split,      \* frame of the _split_long_block call in progress
    user_docs,         \* bot: active doc_id of each user, None when unset
    user_doc_history   \* bot: each user's list of {doc_id, name} entries

vars == <<store, durable, nextId, service, llm, tokenizer, schema, running, last,
          split, user_docs, user_doc_history>>

(* ---------------------------------------------------------------- bounds *)

MaxTokLimit == 3     \* max_tokens and overlap a chunker is constructed with
MaxTextLen == 5      \* tokens of a text given to chunk_markdown
MaxDim == 3          \* embedding dimensionalities of collections and embedders
MaxConcId == 8       \* primary keys handed out to concurrent index_file calls
MaxId == 5          \* primary keys handed out in one run of the pipeline
MaxDirectId == 2    \* primary keys handed out in one run of direct calls
MaxRows == 3        \* rows of a collection the answer service starts from
MaxTopK == 2        \* largest top_k a search is given
MaxRetries == 2     \* largest max_retries a client is built with
MaxBackoff == 2     \* largest backoff_sec a client is built with
MaxContextLimit == 2

(* ------------------------------------------------------ optional values *)

None == {}
Some(x) == {x}
Get(o) == CHOOSE x \in o : TRUE
Opt(S) == {None} \cup {Some(x) : x \in S}

Max(a, b) == IF a >= b THEN a ELSE b
Min(a, b) == IF a <= b THEN a ELSE b

(* ---------------------------------------------------------------- texts *)

Whitespace == {"_", "P"}

RECURSIVE LStrip(_)
LStrip(s) == IF s # <<>> /\ Head(s) \in Whitespace THEN LStrip(Tail(s)) ELSE s

RECURSIVE RStrip(_)
RStrip(s) ==
    IF s # <<>> /\ s[Len(s)] \in Whitespace
    THEN RStrip(SubSeq(s, 1, Len(s) - 1))
    ELSE s

\* str.strip()
Strip(s) == RStrip(LStrip(s))

(* ----------------------------------------------------------- the files *)

\* The file system index_file reads: path -> bytes.  a.md and b.md hold the
\* same bytes; e.md converts to blank markdown; gone.md does not exist.
Paths == {"a.md", "b.md", "c.md", "e.md"}
MissingPath == "gone.md"
ReadBytes(path) ==
    CASE path = "a.md" -> "x1"
      [] path = "b.md" -> "x1"
      [] path = "c.md" -> "x2"
      [] path = "e.md" -> "x3"

\* int(sha1(bytes).hexdigest()[:10], 16): a function of the bytes alone
ShortHashInt(bytes) ==
    CASE bytes = "x1" -> 1
      [] bytes = "x2" -> 2
      [] bytes = "x3" -> 3

DocIds == {ShortHashInt(ReadBytes(p)) : p \in Paths}

\* MarkItDown's text for the bytes, then .replace("\r\n", "\n").strip() + "\n"
MarkItDownText(bytes) ==
    CASE bytes = "x1" -> <<"a", "a", "P", "b", "b">>
      [] bytes = "x2" -> <<"_", "b", "_">>
      [] bytes = "x3" -> <<"_">>

\* a conversion that takes the identity from the path instead of the bytes
ConvertToMdByPath(path) ==
    IF path \notin Paths
    THEN [err |-> "FileNotFoundError"]
    ELSE [err |-> "none",
          md_text |-> Strip(MarkItDownText(ReadBytes(path))) \o <<"_">>,
          doc_id |-> CASE path = "a.md" -> 1
                       [] path = "b.md" -> 2
                       [] path = "c.md" -> 3
                       [] path = "e.md" -> 4]

ConvertToMd(path) ==
    IF path \notin Paths
    THEN [err |-> "FileNotFoundError"]
    ELSE [err |-> "none",
          md_text |-> Strip(MarkItDownText(ReadBytes(path))) \o <<"_">>,
          doc_id |-> ShortHashInt(ReadBytes(path))]

(* ---------------------------------------------------------- Tokenizer *)

\* Tokenizer(max_tokens, overlap) as the pipeline builds it, scaled down
TokMaxTokens == 2
TokOverlap == 1

\* a constructor that also refuses an overlap one below max_tokens
NewTokenizerOffByOne(max_tokens, overlap) ==
    IF overlap + 1 >= max_tokens
    THEN [err |-> "ValueError", tok |-> {}]
    ELSE [err |-> "none",
          tok |-> {[max_tokens |-> max_tokens, overlap |-> overlap]}]

\* a constructor that lets overlap = max_tokens through
NewTokenizerLenient(max_tokens, overlap) ==
    IF overlap > max_tokens
    THEN [err |-> "ValueError", tok |-> {}]
    ELSE [err |-> "none",
          tok |-> {[max_tokens |-> max_tokens, overlap |-> overlap]}]

\* Tokenizer.__init__: overlap >= max_tokens is refused
NewTokenizer(max_tokens, overlap) ==
    IF overlap >= max_tokens
    THEN [err |-> "ValueError", tok |-> None]
    ELSE [err |-> "none", tok |-> Some([max_tokens |-> max_tokens, overlap |-> overlap])]

\* len(tokenizer.encode(text)): a text is modelled by its token sequence
CountTokens(text) == Len(text)

RECURSIVE SplitPar(_, _)
SplitPar(s, cur) ==
    IF s = <<>> THEN <<cur>>
    ELSE IF Head(s) = "P" THEN <<cur>> \o SplitPar(Tail(s), <<>>)
    ELSE SplitPar(Tail(s), Append(cur, Head(s)))

RECURSIVE StripAll(_)
StripAll(ss) == IF ss = <<>> THEN <<>> ELSE <<Strip(Head(ss))>> \o StripAll(Tail(ss))

NonEmpty(t) == t # <<>>

\* [b.strip() for b in md.split("\n\n") if b.strip()]
MdToBlocks(md) == SelectSeq(StripAll(SplitPar(md, <<>>)), NonEmpty)

RECURSIVE SplitFrom(_, _, _, _)
SplitFrom(toks, start, mt, ov) ==
    IF start >= Len(toks) THEN <<>>
    ELSE <<Strip(SubSeq(toks, start + 1, Min(start + mt, Len(toks))))>>
             \o SplitFrom(toks, start + (mt - ov), mt, ov)

\* a hard split whose windows are one token longer than max_tokens
SplitLongBlockWide(text, mt, ov) == SplitFrom(text, 0, mt + 1, ov + 1)

SplitLongBlock(text, mt, ov) == SplitFrom(text, 0, mt, ov)

\* One iteration of the `while start < len(toks)` loop of _split_long_block
\* `toks[start:end]` with end = start + max_tokens
SplitWindow(toks, start, mt) == SubSeq(toks, start + 1, Min(start + mt, Len(toks)))

\* a loop that advances by a whole window, leaving no overlap
SplitAdvanceWholeWindow(start, mt, ov) == start + mt

\* `start += self.max_tokens - self.overlap`
SplitAdvance(start, mt, ov) == start + (mt - ov)

RECURSIVE ChunkLoop(_, _, _, _, _)
ChunkLoop(blocks, chunks, current, mt, ov) ==
    IF blocks = <<>>
    THEN IF current # <<>> THEN Append(chunks, current) ELSE chunks
    ELSE LET block == Head(blocks)
             candidate == IF current # <<>>
                          THEN Strip(current \o <<"P">> \o block)
                          ELSE block
         IN  IF CountTokens(candidate) <= mt
             THEN ChunkLoop(Tail(blocks), chunks, candidate, mt, ov)
             ELSE LET flushed == IF current # <<>> THEN Append(chunks, current)
                                 ELSE chunks
                  IN  IF CountTokens(block) > mt
                      THEN ChunkLoop(Tail(blocks),
                                     flushed \o SplitLongBlock(block, mt, ov),
                                     <<>>, mt, ov)
                      ELSE ChunkLoop(Tail(blocks), flushed, block, mt, ov)

\* a chunker that never joins two blocks
RECURSIVE EachBlockAlone(_, _, _)
EachBlockAlone(blocks, mt, ov) ==
    IF blocks = <<>> THEN <<>>
    ELSE (IF CountTokens(Head(blocks)) > mt
          THEN SplitLongBlock(Head(blocks), mt, ov)
          ELSE <<Head(blocks)>>) \o EachBlockAlone(Tail(blocks), mt, ov)
ChunkMarkdownNoJoin(md, mt, ov) == EachBlockAlone(MdToBlocks(md), mt, ov)

ChunkMarkdown(md, mt, ov) == ChunkLoop(MdToBlocks(md), <<>>, <<>>, mt, ov)

(* ----------------------------------------------------------- Embedder *)

\* One vector per text.  The vector is a function of the text alone; the
\* model keeps one coordinate of it: whether the text mentions "a".
EmbedOne(text) == IF \E i \in 1..Len(text) : text[i] = "a" THEN 1 ELSE 0
Embed(texts) == [i \in 1..Len(texts) |-> EmbedOne(texts[i])]

\* COSINE metric of the index, on the modelled coordinate
Cosine(q, e) == IF q = e THEN 1 ELSE 0

(* ------------------------------------------------------------- Milvus *)

\* The collection as a value: what insert/delete/flush act on
Db == [store |-> store, durable |-> durable, nextId |-> nextId]

CollInsert(db, rows) ==
    [db EXCEPT !.store = @ \cup rows, !.nextId = @ + Cardinality(rows)]
CollDelete(db, rows) == [db EXCEPT !.store = @ \ rows]
CollFlush(db) == [db EXCEPT !.durable = db.store]

\* a filter whose owner condition is one more branch of the if/elif chain
MatchExprElif(r, doc_id, source_path, owner_id) ==
    IF doc_id # None THEN r.doc_id = Get(doc_id)
    ELSE IF source_path # None THEN r.source_path = Get(source_path)
    ELSE owner_id # None => r.owner_id = Get(owner_id)

\* The dimensionality of the vectors Embed returns (Embedder.dim)
EmbedDim == 1

\* The schema _get_or_create_collection creates: fields id, owner_id, doc_id,
\* chunk_id, source_path, section, content, embedding of embed_dim
CreatedSchema(embed_dim) ==
    [dim |-> Some(embed_dim), has_owner |-> TRUE, created_by |-> "milvus.py"]

\* an opening that does not look for the owner field
GetOrCreateCollectionNoOwnerCheck(server, embed_dim) ==
    IF server # None
    THEN IF Get(server).dim # None /\ Get(Get(server).dim) # embed_dim
         THEN [schema |-> server, err |-> "ValueError", calls |-> <<"has_collection">>]
         ELSE [schema |-> server, err |-> "none", calls |-> <<"has_collection">>]
    ELSE [schema |-> Some(CreatedSchema(embed_dim)), err |-> "none",
          calls |-> <<"has_collection", "create", "create_index", "load">>]

\* Milvus._get_or_create_collection, called by Milvus.__init__; server is
\* the schema of the collection there, None when there is none
GetOrCreateCollection(server, embed_dim) ==
    IF server # None
    THEN LET embed_field == Get(server).dim
             has_owner == Get(server).has_owner
         IN  IF embed_field # None /\ Get(embed_field) # embed_dim
             THEN [schema |-> server, err |-> "ValueError",
                   calls |-> <<"has_collection">>]
             ELSE IF ~has_owner
             THEN [schema |-> server, err |-> "ValueError",
                   calls |-> <<"has_collection">>]
             ELSE [schema |-> server, err |-> "none", calls |-> <<"has_collection">>]
    ELSE [schema |-> Some(CreatedSchema(embed_dim)), err |-> "none",
          calls |-> <<"has_collection", "create", "create_index", "load">>]

\* The filter expression search builds, applied to a row
MatchExpr(r, doc_id, source_path, owner_id) ==
    /\ IF doc_id # None THEN r.doc_id = Get(doc_id)
       ELSE IF source_path # None THEN r.source_path = Get(source_path)
       ELSE TRUE
    /\ owner_id # None => r.owner_id = Get(owner_id)

\* add_chunks that inserts and flushes first and validates afterwards
AddChunksCallLateCheck(db, owner_id, doc_id, source_path, sections, contents, embeddings, fault) ==
    LET n == Min(Len(contents), Len(embeddings))
        rows == {[id |-> db.nextId + i - 1,
                  owner_id |-> owner_id,
                  doc_id |-> doc_id,
                  chunk_id |-> i - 1,
                  source_path |-> source_path,
                  section |-> IF i <= Len(sections) THEN sections[i] ELSE "",
                  content |-> contents[i],
                  embedding |-> embeddings[i]] : i \in 1..n}
        done == CollFlush(CollInsert(db, rows))
    IN  IF Len(contents) # Len(embeddings)
        THEN [db |-> done, err |-> "AssertionError", ids |-> <<>>,
              calls |-> <<"insert", "flush">>]
        ELSE IF sections # <<>> /\ Len(sections) # Len(contents)
        THEN [db |-> done, err |-> "ValueError", ids |-> <<>>,
              calls |-> <<"insert", "flush">>]
        ELSE [db |-> done, err |-> "none",
              ids |-> [i \in 1..n |-> db.nextId + i - 1],
              calls |-> <<"insert", "flush">>]

\* an add_chunks that returns without flushing
AddFlushStepSkipped(db) == db

\* `self.collection.flush()` after the insert
AddFlushStep(db) == CollFlush(db)

\* Milvus.add_chunks; fault "insert" is collection.insert raising
AddChunksCall(db, owner_id, doc_id, source_path, sections, contents, embeddings, fault) ==
    IF Len(contents) # Len(embeddings)
    THEN [db |-> db, err |-> "AssertionError", ids |-> <<>>, calls |-> <<>>]
    ELSE IF sections # <<>> /\ Len(sections) # Len(contents)
    THEN [db |-> db, err |-> "ValueError", ids |-> <<>>, calls |-> <<>>]
    ELSE IF fault = "insert"
    THEN [db |-> db, err |-> "MilvusException", ids |-> <<>>, calls |-> <<"insert">>]
    ELSE LET n == Len(contents)
             rows == {[id |-> db.nextId + i - 1,
                       owner_id |-> owner_id,
                       doc_id |-> doc_id,
                       chunk_id |-> i - 1,
                       source_path |-> source_path,
                       section |-> IF sections # <<>> THEN sections[i] ELSE "",
                       content |-> contents[i],
                       embedding |-> embeddings[i]] : i \in 1..n}
         IN  [db |-> AddFlushStep(CollInsert(db, rows)),
              err |-> "none",
              ids |-> [i \in 1..n |-> db.nextId + i - 1],
              calls |-> <<"insert", "flush">>]

\* Hits of collection.search over the rows it sees: the rows the expression
\* matches, by descending similarity (ties by primary key), at most top_k
Better(r, s, q) ==
    \/ Cosine(q, r.embedding) > Cosine(q, s.embedding)
    \/ Cosine(q, r.embedding) = Cosine(q, s.embedding) /\ r.id <= s.id

RECURSIVE TopHits(_, _, _)
TopHits(rows, q, k) ==
    IF k = 0 \/ rows = {} THEN <<>>
    ELSE LET best == CHOOSE r \in rows : \A s \in rows : Better(r, s, q)
         IN  <<best>> \o TopHits(rows \ {best}, q, k - 1)

\* Milvus.search
MilvusSearch(view, query_emb, top_k, doc_id, source_path, owner_id) ==
    TopHits({r \in view : MatchExpr(r, doc_id, source_path, owner_id)},
            query_emb, top_k)

\* a delete_doc that never flushes
DeleteFlushStepNever(res) == res

\* `if deleted: self.collection.flush()`
DeleteFlushStep(res) ==
    IF res.deleted # 0
    THEN [res EXCEPT !.db = CollFlush(@), !.calls = Append(@, "flush")]
    ELSE res

\* The expr_parts delete_doc collects: one document condition at most, then
\* the owner condition
DeleteExprParts(doc_id, source_path, owner_id) ==
    (IF doc_id # None
     THEN <<[field |-> "doc_id", value |-> Get(doc_id)]>>
     ELSE IF source_path # None
     THEN <<[field |-> "source_path", value |-> Get(source_path)]>>
     ELSE <<>>)
    \o (IF owner_id # None
        THEN <<[field |-> "owner_id", value |-> Get(owner_id)]>>
        ELSE <<>>)

\* a delete filter that appends the source_path condition whenever it is given
DeleteMatchAllGiven(r, doc_id, source_path, owner_id) ==
    /\ doc_id # None => r.doc_id = Get(doc_id)
    /\ source_path # None => r.source_path = Get(source_path)
    /\ owner_id # None => r.owner_id = Get(owner_id)

\* expr = " and ".join(expr_parts), applied to a row
DeleteMatch(r, doc_id, source_path, owner_id) ==
    LET parts == DeleteExprParts(doc_id, source_path, owner_id)
    IN  \A i \in 1..Len(parts) : r[parts[i].field] = parts[i].value

\* Milvus.delete_doc; fault "delete" is collection.delete raising
DeleteDocCall(db, doc_id, source_path, owner_id, fault) ==
    IF doc_id = None /\ source_path = None
    THEN [db |-> db, err |-> "ValueError", deleted |-> 0, calls |-> <<"load">>]
    ELSE IF fault = "delete"
    THEN [db |-> db, err |-> "MilvusException", deleted |-> 0,
          calls |-> <<"load", "delete">>]
    ELSE LET hit == {r \in db.store : DeleteMatch(r, doc_id, source_path, owner_id)}
         IN  DeleteFlushStep([db |-> CollDelete(db, hit),
                              err |-> "none",
                              deleted |-> Cardinality(hit),
                              calls |-> <<"load", "delete">>])

(* -------------------------------------------------------- RAGPipeline *)

\* owner stored for a document indexed without owner_id
NoOwner == -1

Faults == {"none", "convert", "delete", "embed", "insert"}

\* index_file without its delete step
IndexDeleteStepSkipped(db, doc_id, owner_id, fault) ==
    [db |-> db, err |-> "none", deleted |-> 0, calls |-> <<>>]

\* a delete step that is issued but whose effect waits for the insert
IndexDeleteStepUnapplied(db, doc_id, owner_id, fault) ==
    [DeleteDocCall(db, Some(doc_id), None, owner_id, fault) EXCEPT !.db = db]

\* index_file's first store call: delete_doc(doc_id=doc_id, owner_id=owner_id)
IndexDeleteStep(db, doc_id, owner_id, fault) ==
    DeleteDocCall(db, Some(doc_id), None, owner_id, fault)

\* an empty chunk list that still clears the document's old rows
IndexEmptyStepDeletes(db, doc_id, owner_id) ==
    LET d == DeleteDocCall(db, Some(doc_id), None, owner_id, "none")
    IN  [db |-> d.db, calls |-> d.calls]

\* `if not chunks: return IndexResult(..., chunk_ids=[], ...)`: no store call
IndexEmptyStep(db, doc_id, owner_id) == [db |-> db, calls |-> <<>>]

\* RAGPipeline.index_file; fault names the collaborator call that raises
IndexFileCall(db, input_path, section, owner_id, fault) ==
    LET conv == ConvertToMd(input_path)
        source_path == input_path
    IN
    IF conv.err # "none"
    THEN [db |-> db, err |-> conv.err, calls |-> <<>>, added |-> {}]
    ELSE IF fault = "convert"
    THEN [db |-> db, err |-> "FileConversionException", calls |-> <<>>, added |-> {}]
    ELSE
    LET doc_id == conv.doc_id
        chunks == ChunkMarkdown(conv.md_text, TokMaxTokens, TokOverlap)
    IN
    IF chunks = <<>>
    THEN [db |-> IndexEmptyStep(db, doc_id, owner_id).db, err |-> "none",
          calls |-> IndexEmptyStep(db, doc_id, owner_id).calls, added |-> {},
          result |-> [doc_id |-> doc_id, chunk_ids |-> <<>>,
                      source_path |-> source_path, owner_id |-> owner_id]]
    ELSE
    LET del == IndexDeleteStep(db, doc_id, owner_id, fault) IN
    IF del.err # "none"
    THEN [db |-> del.db, err |-> del.err, calls |-> del.calls, added |-> {}]
    ELSE IF fault = "embed"
    THEN [db |-> del.db, err |-> "RuntimeError", calls |-> del.calls, added |-> {}]
    ELSE
    LET embeddings == Embed(chunks)
        sections == [i \in 1..Len(chunks) |-> section]
        owner_value == IF owner_id # None THEN Get(owner_id) ELSE NoOwner
        add == AddChunksCall(del.db, owner_value, doc_id, source_path,
                             sections, chunks, embeddings, fault)
    IN
    IF add.err # "none"
    THEN [db |-> add.db, err |-> add.err, calls |-> del.calls \o add.calls,
          added |-> {}]
    ELSE [db |-> add.db, err |-> "none", calls |-> del.calls \o add.calls,
          added |-> {<<doc_id, owner_value>>},
          result |-> [doc_id |-> doc_id, chunk_ids |-> add.ids,
                      source_path |-> source_path,
                      owner_id |-> Some(owner_value)]]

\* What a folder argument denotes: a directory that lists its entries in
\* order (iterdir / rglob("*")), a regular file, or nothing.
Folders == {"docs", "a.md", "gone"}
FolderExists(folder) == folder # "gone"
FolderIsDir(folder) == folder = "docs"
Listing(folder, recursive) ==
    IF recursive
    THEN <<[path |-> "a.md", is_file |-> TRUE],
           [path |-> "sub", is_file |-> FALSE],
           [path |-> "b.md", is_file |-> TRUE],
           [path |-> "c.md", is_file |-> TRUE]>>
    ELSE <<[path |-> "a.md", is_file |-> TRUE],
           [path |-> "sub", is_file |-> FALSE],
           [path |-> "c.md", is_file |-> TRUE]>>

\* a handler that leaves the loop after the first failure
NextAfterFailureStop(entries, i) == Len(entries) + 1

\* `except Exception as exc: log.exception(...)`: the loop goes on with the
\* entry after the one that failed
NextAfterFailure(entries, i) == i + 1

\* The loop of index_folder from entry i on: faults[i] is what goes wrong
\* while entry i is indexed
RECURSIVE FolderLoop(_, _, _, _, _, _)
FolderLoop(db, entries, i, section, faults, acc) ==
    IF i > Len(entries) THEN [acc EXCEPT !.db = db]
    ELSE IF ~entries[i].is_file
    THEN FolderLoop(db, entries, i + 1, section, faults, acc)
    ELSE LET r == IndexFileCall(db, entries[i].path, section, None, faults[i]) IN
         IF r.err = "none"
         THEN FolderLoop(r.db, entries, i + 1, section, faults,
                         [acc EXCEPT !.results = @ \cup {[path |-> entries[i].path,
                                                          result |-> r.result]},
                                     !.calls = @ \o r.calls,
                                     !.added = @ \cup r.added])
         ELSE FolderLoop(r.db, entries, NextAfterFailure(entries, i), section, faults,
                         [acc EXCEPT !.calls = @ \o r.calls,
                                     !.logged = @ \cup {entries[i].path}])

\* RAGPipeline.index_folder
IndexFolderCall(db, folder, section, recursive, faults) ==
    IF ~FolderExists(folder)
    THEN [db |-> db, err |-> "FileNotFoundError", results |-> {}, calls |-> <<>>,
          added |-> {}, logged |-> {}]
    ELSE IF ~FolderIsDir(folder)
    THEN [db |-> db, err |-> "NotADirectoryError", results |-> {}, calls |-> <<>>,
          added |-> {}, logged |-> {}]
    ELSE FolderLoop(db, Listing(folder, recursive), 1, section, faults,
                    [db |-> db, err |-> "none", results |-> {}, calls |-> <<>>,
                     added |-> {}, logged |-> {}])

\* The dict RAGPipeline.search makes of a hit
FormatHit(q, r) ==
    [score |-> Cosine(q, r.embedding), doc_id |-> r.doc_id,
     chunk_id |-> r.chunk_id, section |-> r.section,
     source_path |-> r.source_path, content |-> r.content]

\* RAGPipeline.search: the rows Milvus.search returns, then their dicts
PipelineSearchRows(view, query, top_k, doc_id, source_path, owner_id) ==
    MilvusSearch(view, Embed(<<query>>)[1], top_k, doc_id, source_path, owner_id)

PipelineSearch(view, query, top_k, doc_id, source_path, owner_id) ==
    LET q == Embed(<<query>>)[1]
        rows == PipelineSearchRows(view, query, top_k, doc_id, source_path, owner_id)
    IN  [i \in 1..Len(rows) |-> FormatHit(q, rows[i])]

\* RAGPipeline.remove_document
RemoveDocumentCall(db, doc_id, source_path, owner_id, fault) ==
    IF doc_id = None /\ source_path = None
    THEN [db |-> db, err |-> "ValueError", deleted |-> 0, calls |-> <<>>]
    ELSE DeleteDocCall(db, doc_id, source_path, owner_id, fault)

(* ------------------------------------------------------ GigaChatClient *)

\* GigaChatClient.__init__: the fields get_answer reads
NewClient(max_retries, backoff_sec) ==
    [retries |-> Max(0, max_retries), backoff_sec |-> Max(0, backoff_sec),
     given |-> [max_retries |-> max_retries, backoff_sec |-> backoff_sec]]

\* What self._client.invoke does on one attempt: "ok" or the error it raises
Outcomes == {"ok", "e1", "e2"}
\* res.content of a successful invocation
OkContent == <<"_", "a", "_">>

Invoke == [ev |-> "invoke", wait |-> 0]
Sleep(wait) == [ev |-> "sleep", wait |-> wait]

\* a backoff that counts attempts from zero
BackoffWaitFromZero(client, attempt) == client.backoff_sec * attempt

\* wait = self.backoff_sec * (attempt + 1)
BackoffWait(client, attempt) == client.backoff_sec * (attempt + 1)

\* The for loop of get_answer from `attempt` on; outcomes[k] is what the
\* k-th invocation does
RECURSIVE AttemptLoop(_, _, _, _, _)
AttemptLoop(client, outcomes, attempt, events, last_err) ==
    IF attempt >= client.retries + 1
    THEN [events |-> events, err |-> "GigaChatLLMError", cause |-> last_err,
          answer |-> <<>>]
    ELSE LET evs == Append(events, Invoke)
             out == outcomes[attempt + 1]
         IN  IF out = "ok"
             THEN [events |-> evs, err |-> "none", cause |-> None,
                   answer |-> Strip(OkContent)]
             ELSE IF attempt < client.retries
             THEN AttemptLoop(client, outcomes, attempt + 1,
                              Append(evs, Sleep(BackoffWait(client, attempt))),
                              Some(out))
             ELSE [events |-> evs, err |-> "GigaChatLLMError", cause |-> Some(out),
                   answer |-> <<>>]

\* GigaChatClient.get_answer
GetAnswer(client, outcomes) == AttemptLoop(client, outcomes, 0, <<>>, None)

(* ---------------------------------------------------------- RAGService *)

\* RAGService.__init__
NewService(context_limit) == [context_limit |-> Max(1, context_limit)]

\* RAGService._format_context: one block per non-blank hit among the first
\* context_limit, numbered by the hit's rank; "" when there is no block
RECURSIVE ContextBlocks(_, _, _)
ContextBlocks(hits, idx, limit) ==
    IF idx > Min(limit, Len(hits)) THEN <<>>
    ELSE LET content == Strip(hits[idx].content) IN
         IF content = <<>> THEN ContextBlocks(hits, idx + 1, limit)
         ELSE <<[idx |-> idx, source |-> hits[idx].source_path,
                 chunk |-> hits[idx].chunk_id, content |-> content]>>
                \o ContextBlocks(hits, idx + 1, limit)

\* a context whose blocks are numbered 1, 2, ... in the order they are kept
FormatContextRenumbered(svc, hits) ==
    LET blocks == ContextBlocks(hits, 1, svc.context_limit)
    IN  [j \in 1..Len(blocks) |-> [blocks[j] EXCEPT !.idx = j]]

FormatContext(svc, hits) == ContextBlocks(hits, 1, svc.context_limit)

\* an answer that goes to the model whatever the context
NoContextUnchecked(context) == FALSE

\* `if not context`
NoContext(context) == context = <<>>

\* an answer that returns only the hits it put in the context
ReturnedHitsInContext(svc, hits) ==
    SubSeq(hits, 1, Min(svc.context_limit, Len(hits)))

\* `return answer, hits`
ReturnedHits(svc, hits) == hits

\* RAGService.answer(question, top_k)
AnswerCall(svc, client, view, question, top_k, outcomes) ==
    LET hits == PipelineSearch(view, question, top_k, None, None, None)
        rows == PipelineSearchRows(view, question, top_k, None, None, None)
        base == [err |-> "none", answer |-> <<>>, hits |-> <<>>, found |-> hits,
                 rows |-> rows, context |-> <<>>, events |-> <<>>, cause |-> None]
    IN
    IF hits = <<>> THEN base
    ELSE LET context == FormatContext(svc, hits) IN
         IF NoContext(context) THEN [base EXCEPT !.hits = hits]
         ELSE LET run == GetAnswer(client, outcomes) IN
              IF run.err # "none"
              THEN [base EXCEPT !.err = run.err, !.context = context,
                                !.events = run.events, !.cause = run.cause]
              ELSE [base EXCEPT !.answer = run.answer,
                                !.hits = ReturnedHits(svc, hits),
                                !.context = context, !.events = run.events]

(* ------------------------------------------------------- HTTP handlers *)

\* The parameters RAGService.answer declares
AnswerParameters == {"question", "top_k"}
\* The arguments query_rag passes: question by position, the rest by keyword
QueryRagKeywords == {"top_k", "doc_id", "source_path", "owner_id"}

\* query_rag: POST /query
QueryRagCall(svc, client, view, payload, outcomes) ==
    IF ~(QueryRagKeywords \subseteq AnswerParameters)
    THEN [err |-> "TypeError", answer |-> <<>>, hits |-> <<>>, found |-> <<>>,
          rows |-> <<>>, context |-> <<>>, events |-> <<>>, cause |-> None]
    ELSE AnswerCall(svc, client, view, payload.question, payload.top_k, outcomes)

(* ------------------------------------------------------------ the bot *)

\* `history.append(...)` whatever the history holds
HistoryAppendAlways(history, doc_id, name) ==
    Append(history, [doc_id |-> doc_id, name |-> name])

\* `if not any(entry["doc_id"] == result["doc_id"] for entry in history):
\*      history.append({"doc_id": ..., "name": file_name})`
HistoryAppendStep(history, doc_id, name) ==
    IF \E i \in 1..Len(history) : history[i].doc_id = doc_id
    THEN history
    ELSE Append(history, [doc_id |-> doc_id, name |-> name])

\* `doc.file_name or f"doc_{result['doc_id']}"`
FileNameOf(file_name, doc_id) ==
    IF file_name # None THEN Get(file_name)
    ELSE CASE doc_id = 1 -> "doc_1"
           [] doc_id = 2 -> "doc_2"
           [] OTHER -> "doc_n"

\* str.isdigit(): true of ASCII digits and of digits such as "\u00b2" too
IsDigit(args) == args \in {"0", "1", "2", "3", "sup2"}

\* int(args): ValueError on a digit that is not a decimal ("sup2" stands for
\* the superscript two), modelled by None
IntOf(args) ==
    CASE args = "0" -> Some(0)
      [] args = "1" -> Some(1)
      [] args = "2" -> Some(2)
      [] args = "3" -> Some(3)
      [] OTHER -> None

\* cmd_use from `if not args` on: the reply, and the entry chosen if any
CmdUseCall(history, args) ==
    IF args = "" THEN [reply |-> "usage", entry |-> None]
    ELSE IF ~IsDigit(args) THEN [reply |-> "not_a_number", entry |-> None]
    ELSE IF IntOf(args) = None THEN [reply |-> "failed", entry |-> None]
    ELSE LET idx == Get(IntOf(args)) IN
         IF idx < 1 \/ idx > Len(history)
         THEN [reply |-> "no_such_document", entry |-> None]
         ELSE [reply |-> "active", entry |-> Some(history[idx])]

(* ------------------------------------------------------------- inputs *)

Owners == {1, 2}
StoredOwners == Owners \cup {NoOwner}
Questions == {<<"a">>, <<"b">>}
TopKs == 1..MaxTopK
DirectPaths == {"x.md", "y.md"}
ContentArgs == {<< <<"a">> >>, << <<"_">>, <<"b">> >>}
SectionArgs == {<<>>, <<"s">>}
EmbeddingArgs(contents) == {Embed(contents), Tail(Embed(contents))}
FolderFaults == {"none", "convert", "embed"}
Entries(folder, recursive) ==
    IF FolderIsDir(folder) THEN Listing(folder, recursive) ELSE <<>>
FaultPatterns(entries) ==
    {f \in [1..Len(entries) -> FolderFaults] :
        \A i \in 1..Len(entries) : ~entries[i].is_file => f[i] = "none"}

(* ------------------------------------------------------------ actions *)

\* The callers of index_file that may run at the same time (the HTTP
\* handlers of two requests), each at "idle", before its delete_doc call,
\* before its add_chunks call, or "done"; overlap records that a call began
\* while another was in progress, seen the anomalies observed so far
Callers == {1, 2}
NotRunning == [pc |-> [c \in Callers |-> "idle"], overlap |-> FALSE, seen |-> {}]

\* No call is in progress: the caller has taken the last result
\* The rows of one (document, owner) pair
PairRowsOf(view, doc_id, owner) ==
    {r \in view : r.doc_id = doc_id /\ r.owner_id = owner}

\* No _split_long_block call is in progress
NoSplit == [pc |-> "idle"]

\* The users that write to the bot, the documents the API indexes for them,
\* the file names of their uploads and the arguments of /use
Users == {1, 2}
BotDocIds == {1, 2}
FileNames == {"f.md"}
UseArgs == {"", "x", "sup2", "0", "1", "2", "3"}

Idle == [op |-> "idle", err |-> "none", calls |-> <<>>, added |-> {}]
Ready == last.op = "idle"

Commit(r) ==
    /\ store' = r.db.store
    /\ durable' = r.db.durable
    /\ nextId' = r.db.nextId

\* primary keys stay within the run's bound
Room(r, bound) == r.db.nextId <= bound + 1

AddChunks ==
    /\ Ready
    /\ \E owner_id \in Owners, doc_id \in {1, 2}, source_path \in DirectPaths,
          sections \in SectionArgs, contents \in ContentArgs :
       \E embeddings \in EmbeddingArgs(contents) :
         LET r == AddChunksCall(Db, owner_id, doc_id, source_path, sections,
                                contents, embeddings, "none")
         IN  /\ Room(r, MaxDirectId)
             /\ Commit(r)
             /\ last' = [op |-> "add_chunks", owner_id |-> owner_id,
                         doc_id |-> doc_id, source_path |-> source_path,
                         sections |-> sections, contents |-> contents,
                         embeddings |-> embeddings,
                         err |-> r.err, ids |-> r.ids, calls |-> r.calls,
                         added |-> IF r.err = "none" THEN {<<doc_id, owner_id>>}
                                   ELSE {}]
             /\ UNCHANGED <<service, llm, tokenizer, schema, running, split, user_docs, user_doc_history>>

DeleteDoc ==
    /\ Ready
    /\ \E doc_id \in Opt({1, 2}), source_path \in Opt(DirectPaths),
          owner_id \in Opt(Owners) :
         LET r == DeleteDocCall(Db, doc_id, source_path, owner_id, "none")
         IN  /\ Commit(r)
             /\ last' = [op |-> "delete_doc", doc_id |-> doc_id,
                         source_path |-> source_path, owner_id |-> owner_id,
                         err |-> r.err, deleted |-> r.deleted, calls |-> r.calls,
                         added |-> {}]
             /\ UNCHANGED <<service, llm, tokenizer, schema, running, split, user_docs, user_doc_history>>

Search ==
    /\ Ready
    /\ \E query \in {<<"a">>}, top_k \in TopKs, doc_id \in Opt({1, 2}),
          source_path \in Opt(DirectPaths), owner_id \in Opt(Owners),
          view \in {store, durable} :
         /\ last' = [op |-> "search", query |-> query, top_k |-> top_k,
                     doc_id |-> doc_id, source_path |-> source_path,
                     owner_id |-> owner_id, err |-> "none",
                     rows |-> PipelineSearchRows(view, query, top_k, doc_id,
                                                 source_path, owner_id),
                     hits |-> PipelineSearch(view, query, top_k, doc_id,
                                             source_path, owner_id),
                     calls |-> <<"load", "search">>, added |-> {}]
         /\ UNCHANGED <<store, durable, nextId, service, llm, tokenizer, schema, running,
                   split, user_docs, user_doc_history>>

IndexFile ==
    /\ Ready
    /\ \E input_path \in Paths \cup {MissingPath}, owner_id \in Opt(Owners),
          fault \in Faults :
         LET r == IndexFileCall(Db, input_path, "default", owner_id, fault)
         IN  /\ Room(r, MaxId)
             /\ Commit(r)
             /\ last' = [op |-> "index_file", input_path |-> input_path,
                         owner_id |-> owner_id, fault |-> fault, err |-> r.err,
                         result |-> IF r.err = "none" THEN Some(r.result) ELSE None,
                         calls |-> r.calls, added |-> r.added]
             /\ UNCHANGED <<service, llm, tokenizer, schema, running, split, user_docs, user_doc_history>>

IndexFolder ==
    /\ Ready
    /\ \E folder \in Folders, recursive \in BOOLEAN :
       \E faults \in FaultPatterns(Entries(folder, recursive)) :
         LET r == IndexFolderCall(Db, folder, "default", recursive, faults)
         IN  /\ Room(r, MaxId)
             /\ Commit(r)
             /\ last' = [op |-> "index_folder", folder |-> folder,
                         recursive |-> recursive, faults |-> faults,
                         err |-> r.err, results |-> r.results, logged |-> r.logged,
                         calls |-> r.calls, added |-> r.added]
             /\ UNCHANGED <<service, llm, tokenizer, schema, running, split, user_docs, user_doc_history>>

RemoveDocument ==
    /\ Ready
    /\ \E doc_id \in Opt(DocIds), source_path \in Opt({"a.md"}),
          owner_id \in Opt(Owners) :
         LET r == RemoveDocumentCall(Db, doc_id, source_path, owner_id, "none")
         IN  /\ Commit(r)
             /\ last' = [op |-> "remove_document", doc_id |-> doc_id,
                         source_path |-> source_path, owner_id |-> owner_id,
                         err |-> r.err, deleted |-> r.deleted, calls |-> r.calls,
                         added |-> {}]
             /\ UNCHANGED <<service, llm, tokenizer, schema, running, split, user_docs, user_doc_history>>

Answer ==
    /\ Ready
    /\ \E question \in Questions, top_k \in TopKs,
          outcomes \in [1..(llm.retries + 1) -> {"ok", "e1"}],
          view \in {store, durable} :
         LET r == AnswerCall(service, llm, view, question, top_k, outcomes)
         IN  /\ last' = [op |-> "answer", question |-> question, top_k |-> top_k,
                         outcomes |-> outcomes,
                         err |-> r.err, answer |-> r.answer, hits |-> r.hits,
                         found |-> r.found, rows |-> r.rows, context |-> r.context,
                         events |-> r.events, calls |-> <<>>, added |-> {}]
             /\ UNCHANGED <<store, durable, nextId, service, llm, tokenizer, schema, running,
                   split, user_docs, user_doc_history>>

QueryRag ==
    /\ Ready
    /\ \E question \in Questions, top_k \in TopKs, doc_id \in Opt({1}),
          source_path \in Opt({"x.md"}), owner_id \in Opt(Owners),
          outcomes \in [1..(llm.retries + 1) -> {"ok"}],
          view \in {store, durable} :
         LET payload == [question |-> question, top_k |-> top_k,
                         doc_id |-> doc_id, source_path |-> source_path,
                         owner_id |-> owner_id]
             r == QueryRagCall(service, llm, view, payload, outcomes)
         IN  /\ last' = [op |-> "query", payload |-> payload,
                         outcomes |-> outcomes,
                         err |-> r.err, answer |-> r.answer, hits |-> r.hits,
                         found |-> r.found, rows |-> r.rows, context |-> r.context,
                         events |-> r.events, calls |-> <<>>, added |-> {}]
             /\ UNCHANGED <<store, durable, nextId, service, llm, tokenizer, schema, running,
                   split, user_docs, user_doc_history>>

GetAnswerCall ==
    /\ Ready
    /\ \E outcomes \in [1..(llm.retries + 1) -> Outcomes] :
         LET r == GetAnswer(llm, outcomes)
         IN  /\ last' = [op |-> "get_answer", outcomes |-> outcomes,
                         err |-> r.err, answer |-> r.answer, cause |-> r.cause,
                         events |-> r.events, calls |-> <<>>, added |-> {}]
             /\ UNCHANGED <<store, durable, nextId, service, llm, tokenizer, schema, running,
                   split, user_docs, user_doc_history>>

\* The caller takes the result; the next call can start
Return ==
    /\ ~Ready
    /\ last' = Idle
    /\ UNCHANGED <<store, durable, nextId, service, llm, tokenizer, schema, running,
                   split, user_docs, user_doc_history>>

(* ----------------------------------------------------- specifications *)

\* The indexing pipeline over an initially empty collection
Init ==
    /\ store = {}
    /\ durable = {}
    /\ nextId = 1
    /\ service = NewService(1)
    /\ llm = NewClient(1, 1)
    /\ tokenizer = NewTokenizer(TokMaxTokens, TokOverlap).tok
    /\ split = NoSplit
    /\ user_docs = [u \in Users |-> None]
    /\ user_doc_history = [u \in Users |-> <<>>]
    /\ schema = Some(CreatedSchema(EmbedDim))
    /\ running = NotRunning
    /\ last = Idle

Next ==
    \/ IndexFile
    \/ IndexFolder
    \/ RemoveDocument
    \/ Return

Spec == Init /\ [][Next]_vars

\* The collection wrapper called directly
NextStore ==
    \/ AddChunks
    \/ DeleteDoc
    \/ Search
    \/ Return

SpecStore == Init /\ [][NextStore]_vars

\* The answer service over a collection that already holds rows: any rows
\* add_chunks can have inserted, with distinct primary keys
RowPool ==
    {[id |-> i, owner_id |-> o, doc_id |-> 1, chunk_id |-> 0,
      source_path |-> "x.md", section |-> "", content |-> c[1],
      embedding |-> EmbedOne(c[1])] :
        i \in 1..MaxRows, o \in Owners, c \in {<< <<"a">> >>, << <<"_">> >>}}

InitRag ==
    /\ store \in {s \in SUBSET RowPool : \A r1, r2 \in s : r1.id = r2.id => r1 = r2}
    /\ durable = store
    /\ nextId = MaxRows + 1
    /\ \E c \in 0..MaxContextLimit : service = NewService(c)
    /\ llm = NewClient(1, 1)
    /\ tokenizer = NewTokenizer(TokMaxTokens, TokOverlap).tok
    /\ split = NoSplit
    /\ user_docs = [u \in Users |-> None]
    /\ user_doc_history = [u \in Users |-> <<>>]
    /\ schema = Some(CreatedSchema(EmbedDim))
    /\ running = NotRunning
    /\ last = Idle

NextRag ==
    \/ Answer
    \/ QueryRag
    \/ Return

SpecRag == InitRag /\ [][NextRag]_vars

\* One client, built with any max_retries and backoff_sec
InitLLM ==
    /\ store = {}
    /\ durable = {}
    /\ nextId = 1
    /\ service = NewService(1)
    /\ \E r \in -1..MaxRetries, b \in -1..MaxBackoff : llm = NewClient(r, b)
    /\ tokenizer = NewTokenizer(TokMaxTokens, TokOverlap).tok
    /\ split = NoSplit
    /\ user_docs = [u \in Users |-> None]
    /\ user_doc_history = [u \in Users |-> <<>>]
    /\ schema = Some(CreatedSchema(EmbedDim))
    /\ running = NotRunning
    /\ last = Idle

NextLLM ==
    \/ GetAnswerCall
    \/ Return

SpecLLM == InitLLM /\ [][NextLLM]_vars

\* The chunker alone: constructed with any max_tokens and overlap, given any
\* text of words ("a", "b"), blanks ("_") and blank lines ("P")
Alphabet == {"a", "b", "_", "P"}
Texts == UNION {[1..n -> Alphabet] : n \in 0..MaxTextLen}

NewTokenizerCall ==
    /\ Ready
    /\ split = NoSplit
    /\ \E max_tokens \in 1..MaxTokLimit, overlap \in 0..MaxTokLimit :
         LET r == NewTokenizer(max_tokens, overlap)
         IN  /\ tokenizer' = r.tok
             /\ last' = [op |-> "new_tokenizer", max_tokens |-> max_tokens,
                         overlap |-> overlap, err |-> r.err, calls |-> <<>>,
                         added |-> {}]
    /\ UNCHANGED <<store, durable, nextId, service, llm, schema, running,
                   split, user_docs, user_doc_history>>

ChunkMarkdownCall ==
    /\ Ready
    /\ tokenizer # None
    /\ \E md \in Texts :
         last' = [op |-> "chunk_markdown", md |-> md,
                  chunks |-> ChunkMarkdown(md, Get(tokenizer).max_tokens,
                                           Get(tokenizer).overlap),
                  err |-> "none", calls |-> <<>>, added |-> {}]
    /\ UNCHANGED <<store, durable, nextId, service, llm, tokenizer, schema, running,
                   split, user_docs, user_doc_history>>

NextChunk ==
    \/ NewTokenizerCall
    \/ ChunkMarkdownCall
    \/ Return

SpecChunk == Init /\ [][NextChunk]_vars

\* Opening the store against a server whose collection is absent or has
\* any schema, with or without a row in it
Schemas ==
    [dim : Opt(1..MaxDim), has_owner : BOOLEAN, created_by : {"other"}]
    \cup {CreatedSchema(d) : d \in 1..MaxDim}

InitOpen ==
    /\ schema \in Opt(Schemas)
    /\ store \in {s \in SUBSET RowPool : Cardinality(s) <= 1 /\ (schema = None => s = {})}
    /\ durable = store
    /\ nextId = MaxRows + 1
    /\ service = NewService(1)
    /\ llm = NewClient(1, 1)
    /\ tokenizer = NewTokenizer(TokMaxTokens, TokOverlap).tok
    /\ split = NoSplit
    /\ user_docs = [u \in Users |-> None]
    /\ user_doc_history = [u \in Users |-> <<>>]
    /\ running = NotRunning
    /\ last = Idle

OpenStore ==
    /\ Ready
    /\ \E embed_dim \in 1..MaxDim :
         LET r == GetOrCreateCollection(schema, embed_dim)
         IN  /\ schema' = r.schema
             /\ last' = [op |-> "open", embed_dim |-> embed_dim, before |-> schema,
                         err |-> r.err, calls |-> r.calls, added |-> {}]
    /\ UNCHANGED <<store, durable, nextId, service, llm, tokenizer, running,
                   split, user_docs, user_doc_history>>

NextOpen ==
    \/ OpenStore
    \/ Return

SpecOpen == InitOpen /\ [][NextOpen]_vars

\* Two callers index the same file for the same owner, step by step
ConcPath == "a.md"
ConcOwner == Some(1)
ConcDoc == ConvertToMd(ConcPath).doc_id
ConcChunks == ChunkMarkdown(ConvertToMd(ConcPath).md_text, TokMaxTokens, TokOverlap)

InProgress(pc) == {c \in Callers : pc[c] \in {"delete", "insert"}}

\* What a reader of the collection can observe of the pair being indexed
Anomalies(written, pc) ==
    LET rows == PairRowsOf(written, ConcDoc, Get(ConcOwner)) IN
    {a \in {"duplicate"} :
        \E r1, r2 \in rows : r1 # r2 /\ r1.chunk_id = r2.chunk_id}
    \cup
    {a \in {"missing"} :
        /\ \E c \in Callers : pc[c] = "done"
        /\ Cardinality(rows) < Len(ConcChunks)}

Step(c, to, written) ==
    LET pc == [running.pc EXCEPT ![c] = to] IN
    running' = [pc |-> pc,
                overlap |-> running.overlap
                              \/ (to = "delete" /\ InProgress(running.pc) # {}),
                seen |-> running.seen \cup
                           (IF running.overlap \/ (to = "delete" /\ InProgress(running.pc) # {})
                            THEN Anomalies(written, pc) ELSE {})]

\* index_file up to its first store call: convert, chunk
BeginIndex(c) ==
    /\ running.pc[c] = "idle"
    /\ nextId + Len(ConcChunks) * (Cardinality(InProgress(running.pc)) + 1) - 1
          <= MaxConcId
    /\ Step(c, "delete", store)
    /\ UNCHANGED <<store, durable, nextId, service, llm, tokenizer, schema, last,
                   split, user_docs, user_doc_history>>

\* removed = self.milvus.delete_doc(doc_id=doc_id, owner_id=owner_id)
DeleteStep(c) ==
    /\ running.pc[c] = "delete"
    /\ LET r == IndexDeleteStep(Db, ConcDoc, ConcOwner, "none")
       IN  /\ Commit(r)
           /\ Step(c, "insert", r.db.store)
    /\ UNCHANGED <<service, llm, tokenizer, schema, last, split, user_docs, user_doc_history>>

\* embeddings = self.embedder.embed(chunks); ids = self.milvus.add_chunks(...)
InsertStep(c) ==
    /\ running.pc[c] = "insert"
    /\ LET r == AddChunksCall(Db, Get(ConcOwner), ConcDoc, ConcPath,
                              [i \in 1..Len(ConcChunks) |-> "default"],
                              ConcChunks, Embed(ConcChunks), "none")
       IN  /\ Commit(r)
           /\ Step(c, "done", r.db.store)
    /\ UNCHANGED <<service, llm, tokenizer, schema, last, split, user_docs, user_doc_history>>

\* the caller has the result and may call again
EndIndex(c) ==
    /\ running.pc[c] = "done"
    /\ Step(c, "idle", store)
    /\ UNCHANGED <<store, durable, nextId, service, llm, tokenizer, schema, last,
                   split, user_docs, user_doc_history>>

NextConc ==
    \/ \E c \in Callers : BeginIndex(c)
    \/ \E c \in Callers : DeleteStep(c)
    \/ \E c \in Callers : InsertStep(c)
    \/ \E c \in Callers : EndIndex(c)

SpecConc == Init /\ [][NextConc]_vars

\* The hard split of one block, iteration by iteration: the blocks are those
\* _md_to_blocks yields, and chunk_markdown hands over one whose token count
\* exceeds max_tokens.  offsets and windows keep the value of start and of
\* toks[start:end] at each iteration.
Blocks == UNION {{MdToBlocks(md)[i] : i \in 1..Len(MdToBlocks(md))} : md \in Texts}

SplitBegin ==
    /\ Ready
    /\ split = NoSplit
    /\ tokenizer # None
    /\ \E text \in Blocks :
         /\ CountTokens(text) > Get(tokenizer).max_tokens
         /\ split' = [pc |-> "loop", toks |-> text, start |-> 0, res |-> <<>>,
                      offsets |-> <<>>, windows |-> <<>>]
    /\ UNCHANGED <<store, durable, nextId, service, llm, tokenizer, schema, running,
                   last, user_docs, user_doc_history>>

SplitStep ==
    /\ split.pc = "loop"
    /\ LET t == Get(tokenizer) IN
       IF split.start < Len(split.toks)
       THEN LET window == SplitWindow(split.toks, split.start, t.max_tokens) IN
            /\ split' = [split EXCEPT
                            !.res = Append(@, Strip(window)),
                            !.offsets = Append(@, split.start),
                            !.windows = Append(@, window),
                            !.start = SplitAdvance(@, t.max_tokens, t.overlap)]
            /\ UNCHANGED last
       ELSE /\ split' = NoSplit
            /\ last' = [op |-> "split_long_block", toks |-> split.toks,
                        res |-> split.res, offsets |-> split.offsets,
                        windows |-> split.windows, max_tokens |-> t.max_tokens,
                        overlap |-> t.overlap, err |-> "none", calls |-> <<>>,
                        added |-> {}]
    /\ UNCHANGED <<store, durable, nextId, service, llm, tokenizer, schema, running,
                   user_docs, user_doc_history>>

NextSplit ==
    \/ NewTokenizerCall
    \/ SplitBegin
    \/ SplitStep
    \/ Return

\* The loop runs in one thread with nothing to wait for: an iteration that
\* can be taken is taken
SpecSplit == Init /\ [][NextSplit]_vars /\ WF_vars(SplitStep)

\* The session state of the bot: uploads, /use and /reset by any user.
\* outcome is the doc_id in the API's reply, None when the download or the
\* request raised.
HandleDocument ==
    /\ Ready
    /\ \E author_id \in Users, file_name \in Opt(FileNames),
          outcome \in Opt(BotDocIds) :
         IF outcome = None
         THEN /\ last' = [op |-> "handle_document", author_id |-> author_id,
                          reply |-> "failed", err |-> "none", calls |-> <<>>,
                          added |-> {}]
              /\ UNCHANGED <<user_docs, user_doc_history>>
         ELSE /\ user_docs' = [user_docs EXCEPT ![author_id] = outcome]
              /\ user_doc_history' =
                    [user_doc_history EXCEPT ![author_id] =
                        HistoryAppendStep(@, Get(outcome),
                                          FileNameOf(file_name, Get(outcome)))]
              /\ last' = [op |-> "handle_document", author_id |-> author_id,
                          reply |-> "indexed", err |-> "none", calls |-> <<>>,
                          added |-> {}]
    /\ UNCHANGED <<store, durable, nextId, service, llm, tokenizer, schema, running,
                   split>>

CmdUse ==
    /\ Ready
    /\ \E author_id \in Users, args \in UseArgs :
         LET r == CmdUseCall(user_doc_history[author_id], args) IN
         /\ user_docs' = IF r.entry = None THEN user_docs
                         ELSE [user_docs EXCEPT ![author_id] = Some(Get(r.entry).doc_id)]
         /\ last' = [op |-> "cmd_use", author_id |-> author_id, args |-> args,
                     reply |-> r.reply, err |-> "none", calls |-> <<>>, added |-> {}]
    /\ UNCHANGED <<store, durable, nextId, service, llm, tokenizer, schema, running,
                   split, user_doc_history>>

CmdReset ==
    /\ Ready
    /\ \E author_id \in Users :
         /\ user_docs' = [user_docs EXCEPT ![author_id] = None]
         /\ last' = [op |-> "cmd_reset", author_id |-> author_id, reply |-> "reset",
                     err |-> "none", calls |-> <<>>, added |-> {}]
    /\ UNCHANGED <<store, durable, nextId, service, llm, tokenizer, schema, running,
                   split, user_doc_history>>

NextBot ==
    \/ HandleDocument
    \/ CmdUse
    \/ CmdReset
    \/ Return

SpecBot == Init /\ [][NextBot]_vars

(* ------------------------------------------------------------- claims *)

SeqSet(q) == {q[i] : i \in 1..Len(q)}
PairRows(view, doc_id, owner) ==
    {r \in view : r.doc_id = doc_id /\ r.owner_id = owner}

\* C1: once index_file has returned n >= 1 chunk ids, the collection (as
\* written and as flushed) holds for the document and the owner it was stored
\* under exactly the n rows just inserted: chunk indices 0..n-1 once each,
\* carrying the chunks of the file in order, whatever an earlier indexing of
\* the same document and owner had left.
C1_ReindexReplaces ==
    (last.op = "index_file" /\ last.err = "none"
        /\ Get(last.result).chunk_ids # <<>>) =>
    LET res == Get(last.result)
        n == Len(res.chunk_ids)
        chunks == ChunkMarkdown(ConvertToMd(last.input_path).md_text,
                                TokMaxTokens, TokOverlap)
    IN  \A view \in {store, durable} :
          LET rows == PairRows(view, res.doc_id, Get(res.owner_id)) IN
          /\ Cardinality(rows) = n
          /\ {r.id : r \in rows} = SeqSet(res.chunk_ids)
          /\ \A k \in 0..(n - 1) :
                \E r \in rows :
                    /\ r.chunk_id = k
                    /\ r.content = chunks[k + 1]
                    /\ r.source_path = last.input_path
                    /\ \A t \in rows : t.chunk_id = k => t = r

\* a second indexing of a two-chunk document that found rows to delete
C1_Witness ==
    /\ last.op = "index_file"
    /\ last.err = "none"
    /\ Len(Get(last.result).chunk_ids) = 2
    /\ last.calls = <<"load", "delete", "flush", "insert", "flush">>

InvariantArgs ==
    [q : {0, 1}, k : TopKs, doc_id : Opt({1, 2}),
     source_path : Opt(DirectPaths)]

\* C2: for every content of the collection and every owner A, a search
\* given owner_id = A returns only rows stored under A, with any doc_id or
\* source_path filter beside it; so does the search the pipeline ran last.
C2_OwnerIsolation ==
    /\ \A view \in {store, durable}, A \in StoredOwners, a \in InvariantArgs :
          LET hits == MilvusSearch(view, a.q, a.k, a.doc_id, a.source_path, Some(A))
          IN  \A i \in 1..Len(hits) : hits[i].owner_id = A
    /\ (last.op = "search" /\ last.owner_id # None) =>
          \A i \in 1..Len(last.rows) : last.rows[i].owner_id = Get(last.owner_id)

\* a search for owner 1 that returned rows while a row of owner 2 matched
\* the rest of its filter
C2_Witness ==
    /\ last.op = "search"
    /\ last.owner_id = Some(1)
    /\ last.rows # <<>>
    /\ \E r \in store :
          /\ r.owner_id = 2
          /\ MatchExpr(r, last.doc_id, last.source_path, None)

\* C3 (as claimed): a query returns {answer, hits}, and every hit
\* satisfies the doc_id, source_path and owner_id of the request.
C3_QueryAppliesFilters ==
    last.op = "query" =>
        /\ last.err = "none"
        /\ \A i \in 1..Len(last.rows) :
              MatchExpr(last.rows[i], last.payload.doc_id,
                        last.payload.source_path, last.payload.owner_id)

NoHits(X) ==
    \A view \in {store, durable}, a \in InvariantArgs, o \in Opt(Owners) :
        MilvusSearch(view, a.q, a.k, Some(X), a.source_path, o) = <<>>

\* C4: in every step, (a) a delete_doc(doc_id = X) that returns leaves no
\* search filtered by doc_id = X with a hit, (b) once no such search has a
\* hit, none has one after a step that is not an add_chunks for X, and
\* (c) a delete_doc that returns has flushed exactly when it deleted a row.
C4_DeleteThenNoHits ==
    [][\A X \in {1, 2} :
        /\ (/\ last'.op = "delete_doc"
            /\ last'.err = "none"
            /\ last'.doc_id = Some(X)
            /\ last'.owner_id = None) => NoHits(X)'
        /\ (NoHits(X) /\ \A o \in StoredOwners : <<X, o>> \notin last'.added)
              => NoHits(X)'
        /\ (last'.op = "delete_doc" /\ last'.err = "none") =>
              (("flush" \in SeqSet(last'.calls)) <=> last'.deleted # 0)
      ]_vars

\* a delete_doc(doc_id = 1), given no owner, that removed two rows
C4_Witness ==
    /\ last.op = "delete_doc"
    /\ last.err = "none"
    /\ last.doc_id = Some(1)
    /\ last.owner_id = None
    /\ last.deleted = 2
    /\ NoHits(1)

AddChunksRejected ==
    /\ last'.err \in {"AssertionError", "ValueError"}
    /\ store' = store
    /\ durable' = durable
    /\ nextId' = nextId
    /\ last'.calls = <<>>

\* C5 (as claimed): add_chunks given embeddings, or any sections list, of
\* another length than contents fails and leaves the collection as it was.
C5_AnyMismatchRejected ==
    [][(/\ last'.op = "add_chunks"
        /\ \/ Len(last'.contents) # Len(last'.embeddings)
           \/ Len(last'.sections) # Len(last'.contents))
        => AddChunksRejected]_vars

\* C5 (amended): the same for embeddings of another length and for a
\* non-empty sections list of another length; with matching embeddings, an
\* empty sections list is accepted and the rows get the empty section.
C5_MismatchRejected ==
    [][last'.op = "add_chunks" =>
        /\ (\/ Len(last'.contents) # Len(last'.embeddings)
            \/ /\ last'.sections # <<>>
               /\ Len(last'.sections) # Len(last'.contents))
              => AddChunksRejected
        /\ (/\ Len(last'.contents) = Len(last'.embeddings)
            /\ last'.sections = <<>>)
              => /\ last'.err = "none"
                 /\ \A id \in SeqSet(last'.ids) :
                       \E r \in store' \ store : r.id = id /\ r.section = ""
      ]_vars

\* a call with a short sections list, refused over a non-empty collection
C5_Witness ==
    /\ last.op = "add_chunks"
    /\ last.err = "ValueError"
    /\ Len(last.sections) = 1
    /\ Len(last.contents) = 2
    /\ store # {}

\* C6 (as claimed): delete_doc without doc_id and source_path raises and
\* has made no call on the collection.
C6_NoStoreAccess ==
    (/\ last.op = "delete_doc"
     /\ last.doc_id = None
     /\ last.source_path = None)
        => last.err = "ValueError" /\ last.calls = <<>>

BlankHit(h) == \A i \in 1..Len(h.content) : h.content[i] \in Whitespace

Invocations(events) == Cardinality({i \in 1..Len(events) : events[i].ev = "invoke"})

\* C7: an answer() whose search found nothing returns an empty answer and
\* an empty hit list; one whose hits within context_limit are all blank
\* returns an empty answer and every hit found; neither has called the
\* language model, which is called only with a non-empty context.
C7_NoContextNoLLM ==
    last.op = "answer" =>
        LET n == Min(service.context_limit, Len(last.found))
            blank == \A i \in 1..n : BlankHit(last.found[i])
        IN  /\ last.found = <<>> =>
                 /\ last.err = "none"
                 /\ last.answer = <<>>
                 /\ last.hits = <<>>
                 /\ Invocations(last.events) = 0
            /\ (last.found # <<>> /\ blank) =>
                 /\ last.err = "none"
                 /\ last.answer = <<>>
                 /\ last.hits = last.found
                 /\ last.context = <<>>
                 /\ Invocations(last.events) = 0
            /\ Invocations(last.events) > 0 => (~blank /\ last.context # <<>>)

\* two blank hits were found and returned, and the model was not called
C7_Witness ==
    /\ last.op = "answer"
    /\ Len(last.found) = 2
    /\ \A i \in 1..2 : BlankHit(last.found[i])
    /\ last.hits = last.found
    /\ last.answer = <<>>
    /\ last.events = <<>>

\* C8: an answer() that called the language model and returns, returns the
\* list its search returned, whole and in order.
C8_AllHitsReturned ==
    (last.op = "answer" /\ Invocations(last.events) > 0 /\ last.err = "none") =>
        /\ last.hits = last.found
        /\ last.hits = PipelineSearch(store, last.question, last.top_k,
                                      None, None, None)

\* the model was called, and the hits returned include a blank one beyond
\* context_limit
C8_Witness ==
    /\ last.op = "answer"
    /\ last.err = "none"
    /\ Invocations(last.events) > 0
    /\ Len(last.hits) > service.context_limit
    /\ \E i \in (service.context_limit + 1)..Len(last.hits) : BlankHit(last.hits[i])

FirstOk(outcomes) ==
    LET oks == {i \in DOMAIN outcomes : outcomes[i] = "ok"}
    IN  IF oks = {} THEN 0 ELSE CHOOSE i \in oks : \A j \in oks : i <= j

\* The run the claim describes, for R retries and base wait B: m
\* invocations, a wait of B * k after the k-th of them but the last
ClaimedRun(R, B) ==
    LET first == FirstOk(last.outcomes)
        m == IF first # 0 /\ first <= R + 1 THEN first ELSE R + 1
    IN  /\ Invocations(last.events) <= R + 1
        /\ Len(last.events) = 2 * m - 1
        /\ \A i \in 1..Len(last.events) :
              last.events[i] = IF i % 2 = 1 THEN Invoke ELSE Sleep(B * (i \div 2))
        /\ IF first # 0 /\ first <= R + 1
           THEN last.err = "none"
           ELSE /\ last.err = "GigaChatLLMError"
                /\ last.cause = Some(last.outcomes[R + 1])

\* C9: with R the retry count and B the base wait the client was built
\* with (a negative one counts as 0), get_answer invokes at most R + 1
\* times, stops at the first success, waits B * k after the k-th failure
\* but the last, and raises with the last failure when all R + 1 attempts
\* fail.
C9_RetryClamped ==
    last.op = "get_answer" =>
        ClaimedRun(IF llm.given.max_retries < 0 THEN 0 ELSE llm.given.max_retries,
                   IF llm.given.backoff_sec < 0 THEN 0 ELSE llm.given.backoff_sec)

\* three failed attempts of a client with two retries: waits after the
\* first and the second, the error carries the third failure
C9_Witness ==
    /\ last.op = "get_answer"
    /\ llm.given.max_retries = 2
    /\ llm.given.backoff_sec = 2
    /\ last.outcomes = <<"e1", "e1", "e2">>
    /\ last.err = "GigaChatLLMError"
    /\ last.cause = Some("e2")
    /\ Len(last.events) = 5

\* C10 (as claimed): index_folder returns a report for every folder
\* argument and every pattern of failures.
C10_NeverRaises ==
    last.op = "index_folder" => last.err = "none"

FileEntries(folder, recursive) ==
    {i \in 1..Len(Entries(folder, recursive)) : Entries(folder, recursive)[i].is_file}

\* C10 (amended): index_folder raises only for a folder that does not exist
\* or is not a directory, before any file is indexed; for a directory and
\* every pattern of per-file failures it returns a report with an entry for
\* exactly the files whose index_file succeeded, whose chunks are then in
\* the store unless a later file of the same bytes got as far as deleting
\* them.
C10_FolderReport ==
    last.op = "index_folder" =>
        LET entries == Entries(last.folder, last.recursive)
            files == FileEntries(last.folder, last.recursive)
            ok == {i \in files : last.faults[i] = "none"}
        IN  /\ last.err # "none" <=> last.folder \in {"gone", "a.md"}
            /\ last.err # "none" => (last.calls = <<>> /\ last.results = {})
            /\ last.err = "none" =>
                 /\ {r.path : r \in last.results} = {entries[i].path : i \in ok}
                 /\ last.logged = {entries[i].path : i \in files \ ok}
                 /\ \A i \in ok : \E r \in last.results :
                      /\ r.path = entries[i].path
                      /\ r.result.chunk_ids # <<>>
                      /\ (\A j \in files : (j > i /\ last.faults[j] # "convert") =>
                             ConvertToMd(entries[j].path).doc_id # r.result.doc_id)
                           => \A id \in SeqSet(r.result.chunk_ids) :
                                 \E row \in store : row.id = id /\ row.source_path = r.path

\* the first file failed and the last one is in the report and the store
C10_Witness ==
    /\ last.op = "index_folder"
    /\ last.err = "none"
    /\ last.folder = "docs"
    /\ last.faults[1] = "convert"
    /\ "a.md" \in last.logged
    /\ \E r \in last.results : r.path = "c.md"
    /\ \E row \in store : row.source_path = "c.md"

\* C11: an index_file whose chunking gave no chunk returns an empty chunk
\* id list, has made no call on the collection, and leaves the collection
\* (written and flushed) and the next primary key as they were.
C11_EmptyTouchesNothing ==
    [][(/\ last'.op = "index_file"
        /\ last'.err = "none"
        /\ Get(last'.result).chunk_ids = <<>>)
        => /\ ChunkMarkdown(ConvertToMd(last'.input_path).md_text,
                            TokMaxTokens, TokOverlap) = <<>>
           /\ last'.calls = <<>>
           /\ store' = store
           /\ durable' = durable
           /\ nextId' = nextId]_vars

\* a blank file was indexed over a collection that holds rows
C11_Witness ==
    /\ last.op = "index_file"
    /\ last.input_path = "e.md"
    /\ last.err = "none"
    /\ Get(last.result).chunk_ids = <<>>
    /\ last.calls = <<>>
    /\ store # {}

OwnerValue(owner_id) == IF owner_id = None THEN NoOwner ELSE Get(owner_id)

OtherRows(view, doc_id, owner) ==
    {r \in view : ~(r.doc_id = doc_id /\ r.owner_id = owner)}

\* C12 (as claimed): an index_file for a document and an owner, given or
\* omitted, leaves every row of another (document, owner) pair as it was.
C12_OtherPairsUnchanged ==
    [][(last'.op = "index_file" /\ last'.input_path \in Paths) =>
        LET d == ConvertToMd(last'.input_path).doc_id
            o == OwnerValue(last'.owner_id)
        IN  /\ OtherRows(store', d, o) = OtherRows(store, d, o)
            /\ OtherRows(durable', d, o) = OtherRows(durable, d, o)]_vars

ZeroPairIn(written, flushed, d, o) ==
    PairRows(written, d, o) = {} /\ PairRows(flushed, d, o) = {}
ZeroPair(d, o) == ZeroPairIn(store, durable, d, o)

Position(calls, c) == {i \in 1..Len(calls) : calls[i] = c}

\* C13: in every index_file the delete call precedes the insert call; when
\* embedding or insert fails after the delete, the error propagates and the
\* (document, owner) pair has no row; and a pair without rows stays so over
\* every step in which no index_file succeeds for it.
C13_NoRollback ==
    [][/\ last'.op = "index_file" =>
            \A i \in Position(last'.calls, "delete"),
               j \in Position(last'.calls, "insert") : i < j
       /\ (/\ last'.op = "index_file"
           /\ last'.fault \in {"embed", "insert"}
           /\ Position(last'.calls, "delete") # {})
            => /\ last'.err \notin {"none", "FileNotFoundError",
                                    "FileConversionException"}
               /\ last'.result = None
               /\ ZeroPairIn(store', durable',
                             ConvertToMd(last'.input_path).doc_id,
                             OwnerValue(last'.owner_id))
       /\ \A d \in DocIds, o \in StoredOwners :
            (ZeroPair(d, o) /\ <<d, o>> \notin last'.added) => ZeroPair(d, o)'
      ]_vars

\* the insert of a re-indexing failed after its delete removed the rows
C13_Witness ==
    /\ last.op = "index_file"
    /\ last.fault = "insert"
    /\ last.err # "none"
    /\ last.calls = <<"load", "delete", "flush", "insert">>
    /\ ZeroPair(ConvertToMd(last.input_path).doc_id, OwnerValue(last.owner_id))

ClaimedFilter(r, doc_id, source_path, owner_id) ==
    /\ doc_id # None => r.doc_id = Get(doc_id)
    /\ (doc_id = None /\ source_path # None) => r.source_path = Get(source_path)
    /\ owner_id # None => r.owner_id = Get(owner_id)

\* C15: a search returns rows of the claimed filter only, min(top_k, number
\* of rows matching it) of them, so every row when no filter is given; a
\* delete_doc that returns has removed exactly the rows of the same filter.
C15_SameFilter ==
    [][LET m == {r \in store : ClaimedFilter(r, last'.doc_id, last'.source_path,
                                            last'.owner_id)}
       IN  /\ last'.op = "search" =>
                /\ SeqSet(last'.rows) \subseteq m
                /\ Len(last'.rows) = Min(last'.top_k, Cardinality(m))
           /\ (last'.op = "delete_doc" /\ last'.err = "none") =>
                /\ store' = store \ m
                /\ last'.deleted = Cardinality(m)
      ]_vars

\* a delete_doc given doc_id 1 and another document's path removed the rows
\* of document 1 and left the rows of that path
C15_Witness ==
    /\ last.op = "delete_doc"
    /\ last.err = "none"
    /\ last.doc_id = Some(1)
    /\ last.source_path = Some("y.md")
    /\ last.deleted > 0
    /\ \E r \in store : r.source_path = "y.md" /\ r.doc_id = 2

\* The searches of either view that a row matches and that ask for as many
\* hits as the view has rows all return the row
FoundByAll(r, written, flushed) ==
    \A view \in {written, flushed}, o \in {None, Some(r.owner_id)},
       d \in {None, Some(r.doc_id)}, sp \in {None, Some(r.source_path)} :
        \E i \in 1..Cardinality(view) :
            MilvusSearch(view, 1, Cardinality(view), d, sp, o)[i] = r

\* C16: when add_chunks returns, every row it inserted is returned by every
\* search whose filter it matches, whichever view the search reads; a row
\* so visible stays so over every step but a delete_doc; and a search
\* returns what a search of all writes returns.
C16_ReadAfterWrite ==
    [][/\ (last'.op = "add_chunks" /\ last'.err = "none") =>
            \A i \in 1..Len(last'.ids) :
                \E r \in store' : /\ r.id = last'.ids[i]
                                  /\ r.content = last'.contents[i]
                                  /\ FoundByAll(r, store', durable')
       /\ \A r \in store :
            (FoundByAll(r, store, durable) /\ last'.op # "delete_doc")
                => FoundByAll(r, store', durable')
       /\ last'.op = "search" =>
            last'.rows = MilvusSearch(store, Embed(<<last'.query>>)[1], last'.top_k,
                                      last'.doc_id, last'.source_path,
                                      last'.owner_id)
      ]_vars

\* a search filtered by owner returned a row of the add_chunks before it
C16_Witness ==
    /\ last.op = "search"
    /\ last.owner_id = Some(2)
    /\ last.doc_id = None
    /\ Len(last.rows) = 2
    /\ durable = store
    /\ \A r \in store : r.owner_id = 2

\* C17: opening against an existing collection whose embedding field has
\* another dimensionality than the embedder, or that has no owner_id field,
\* fails and leaves the schema and the rows as they were; an opening of an
\* existing collection succeeds only when neither is the case, and changes
\* nothing; an opening with no collection there creates one with the
\* embedder's dimensionality and the owner field.
C17_OpenValidates ==
    [][last'.op = "open" =>
        LET e == last'.embed_dim IN
        /\ store' = store /\ durable' = durable
        /\ schema # None =>
             /\ schema' = schema
             /\ "create" \notin SeqSet(last'.calls)
             /\ ((Get(schema).dim \notin {None, Some(e)} \/ ~Get(schema).has_owner)
                    => last'.err = "ValueError")
             /\ (last'.err = "none" =>
                    Get(schema).dim \in {None, Some(e)} /\ Get(schema).has_owner)
        /\ schema = None =>
             /\ last'.err = "none"
             /\ schema' # None
             /\ Get(schema').dim = Some(e)
             /\ Get(schema').has_owner
      ]_vars

\* an opening refused for the missing owner field although the
\* dimensionality agreed, over a collection that holds a row
C17_Witness ==
    /\ last.op = "open"
    /\ last.err = "ValueError"
    /\ schema # None
    /\ Get(schema).dim = Some(last.embed_dim)
    /\ ~Get(schema).has_owner
    /\ store # {}

\* C18: every chunk chunk_markdown emits has at most max_tokens tokens.
C18_ChunkWithinLimit ==
    last.op = "chunk_markdown" =>
        \A i \in 1..Len(last.chunks) :
            CountTokens(last.chunks[i]) <= Get(tokenizer).max_tokens

\* an oversized block was hard-split into a full window and a rest
C18_Witness ==
    /\ last.op = "chunk_markdown"
    /\ last.md = <<"a", "b", "a", "b", "a">>
    /\ Get(tokenizer).max_tokens = 3
    /\ Get(tokenizer).overlap = 0
    /\ last.chunks = << <<"a", "b", "a">>, <<"b", "a">> >>

\* C19 (as claimed): no chunk chunk_markdown emits is empty.
C19_NoEmptyChunk ==
    last.op = "chunk_markdown" =>
        \A i \in 1..Len(last.chunks) : last.chunks[i] # <<>>

RECURSIVE JoinBlocks(_, _, _)
JoinBlocks(blocks, lo, hi) ==
    IF lo = hi THEN blocks[lo]
    ELSE blocks[lo] \o <<"P">> \o JoinBlocks(blocks, lo + 1, hi)

\* C20: the blocks of at most max_tokens tokens can be assigned to chunks so
\* that the assignment follows the source order, every chunk assigned to is
\* its blocks, consecutive in the source, joined by blank lines in that
\* order, and where the next fitting block lies in another chunk, joining it
\* to the chunk before would exceed max_tokens.
C20_GreedyPacking ==
    last.op = "chunk_markdown" =>
        LET mt == Get(tokenizer).max_tokens
            blocks == MdToBlocks(last.md)
            chunks == last.chunks
            fit == {i \in 1..Len(blocks) : CountTokens(blocks[i]) <= mt}
        IN  \E f \in [fit -> 1..Len(chunks)] :
              /\ \A i, j \in fit : i < j => f[i] <= f[j]
              /\ \A i \in fit :
                   LET same == {j \in fit : f[j] = f[i]}
                       lo == CHOOSE j \in same : \A k \in same : j <= k
                       hi == CHOOSE j \in same : \A k \in same : j >= k
                   IN  /\ same = lo..hi
                       /\ chunks[f[i]] = JoinBlocks(blocks, lo, hi)
              /\ \A i \in fit :
                   (i + 1 \in fit /\ f[i + 1] # f[i]) =>
                       CountTokens(chunks[f[i]] \o <<"P">> \o blocks[i + 1]) > mt

\* three blocks of one token with max_tokens = 3: blocks 1-2, then block 3
C20_Witness ==
    /\ last.op = "chunk_markdown"
    /\ Get(tokenizer).max_tokens = 3
    /\ last.md = <<"a", "P", "b", "P", "a">>
    /\ last.chunks = << <<"a", "P", "b">>, <<"a">> >>

\* C21: a Tokenizer constructed with overlap >= max_tokens raises ValueError
\* and leaves no chunker, so that no chunk_markdown call can follow; one
\* constructed with overlap < max_tokens succeeds and holds the two values.
C21_ConstructorGuard ==
    /\ [](last.op = "new_tokenizer" =>
            /\ last.overlap >= last.max_tokens =>
                 last.err = "ValueError" /\ tokenizer = None
            /\ last.overlap < last.max_tokens =>
                 /\ last.err = "none"
                 /\ tokenizer = Some([max_tokens |-> last.max_tokens,
                                      overlap |-> last.overlap]))
    /\ [][tokenizer = None => last'.op # "chunk_markdown"]_vars

C21_Witness ==
    /\ last.op = "new_tokenizer"
    /\ last.overlap = last.max_tokens
    /\ last.err = "ValueError"
    /\ tokenizer = None

\* C22: every row of the collection and every result of index_file carries
\* the doc_id of its source bytes: two rows, or a row and the result of a
\* later call, whose files hold the same bytes have the same doc_id, whatever
\* the path, the owner and the rows stored at the time of the call.
C22_SameBytesSameDocId ==
    /\ \A r1, r2 \in store \cup durable :
         ReadBytes(r1.source_path) = ReadBytes(r2.source_path) =>
            r1.doc_id = r2.doc_id
    /\ last.op = "index_file" /\ last.result # None =>
         \A r \in store \cup durable :
            ReadBytes(r.source_path) = ReadBytes(last.input_path) =>
               r.doc_id = Get(last.result).doc_id

C22_Witness ==
    /\ last.op = "index_file"
    /\ last.input_path = "b.md"
    /\ last.owner_id = Some(2)
    /\ last.result # None
    /\ \E r \in store :
         /\ r.source_path = "a.md"
         /\ r.owner_id = 1
         /\ r.doc_id = Get(last.result).doc_id
    /\ \E r \in store : r.source_path = "c.md"

Positions(offset, mt, L) == (offset + 1)..Min(offset + mt, L)

\* C23: the hard split of a block of L > max_tokens tokens takes its windows
\* at the offsets 0, s, 2s, ... with s = max_tokens - overlap, one for every
\* such offset below L and none beyond; each window is toks[offset:offset +
\* max_tokens], at most max_tokens tokens, and gives one chunk; two
\* consecutive windows of max_tokens tokens share exactly overlap tokens;
\* every token of the block lies in a window.
C23_WindowOffsets ==
    last.op = "split_long_block" /\ Len(last.toks) > last.max_tokens =>
        LET L == Len(last.toks)
            mt == last.max_tokens
            s == last.max_tokens - last.overlap
            n == Len(last.offsets)
        IN  /\ \A i \in 1..n : last.offsets[i] = (i - 1) * s
            /\ \A k \in 0..L : k * s < L <=> k + 1 <= n
            /\ Len(last.res) = n /\ Len(last.windows) = n
            /\ \A i \in 1..n :
                 /\ Len(last.windows[i]) <= mt
                 /\ Len(last.windows[i]) = Cardinality(Positions(last.offsets[i], mt, L))
                 /\ \A j \in 1..Len(last.windows[i]) :
                      last.windows[i][j] = last.toks[last.offsets[i] + j]
                 /\ last.res[i] = Strip(last.windows[i])
            /\ \A i \in 1..(n - 1) :
                 Len(last.windows[i]) = mt /\ Len(last.windows[i + 1]) = mt =>
                    Cardinality(Positions(last.offsets[i], mt, L)
                                \cap Positions(last.offsets[i + 1], mt, L))
                       = last.overlap
            /\ \A p \in 1..L :
                 \E i \in 1..n : p \in Positions(last.offsets[i], mt, L)

\* the 600-token example scaled down: L = 5, max_tokens = 3, overlap = 1
\* gives the offsets 0, 2, 4 and three chunks
C23_Witness ==
    /\ last.op = "split_long_block"
    /\ Len(last.toks) = 5
    /\ last.max_tokens = 3
    /\ last.overlap = 1
    /\ last.offsets = <<0, 2, 4>>
    /\ Len(last.res) = 3

KeptRanks(svc, hits) ==
    {i \in 1..Min(svc.context_limit, Len(hits)) : ~BlankHit(hits[i])}

\* C24: context_limit is at least 1, and the context of an answer() whose
\* search found hits holds exactly one block for each non-blank hit among
\* the first context_limit, in rank order, each numbered with the rank of its
\* hit and carrying that hit's stripped content, source and chunk_id.
C24_ContextByRank ==
    /\ service.context_limit >= 1
    /\ last.op = "answer" /\ last.found # <<>> =>
         LET kept == KeptRanks(service, last.found)
             n == Len(last.context)
         IN  /\ n = Cardinality(kept)
             /\ \A j \in 1..n :
                  LET b == last.context[j] IN
                  /\ b.idx \in kept
                  /\ b.content = Strip(last.found[b.idx].content)
                  /\ b.source = last.found[b.idx].source_path
                  /\ b.chunk = last.found[b.idx].chunk_id
             /\ \A j \in 1..(n - 1) : last.context[j].idx < last.context[j + 1].idx

\* a blank first hit and a second hit that is block [2], the only block
C24_Witness ==
    /\ last.op = "answer"
    /\ Len(last.found) = 2
    /\ service.context_limit = 2
    /\ BlankHit(last.found[1])
    /\ Len(last.context) = 1
    /\ last.context[1].idx = 2

\* C25: every iteration of the hard-split loop appends one window and moves
\* start forward by max_tokens - overlap >= 1, and a split that has begun
\* returns, with no more windows than the block has tokens.
C25_SplitTerminates ==
    /\ [][split.pc = "loop" /\ split'.pc = "loop" =>
            /\ split'.start = split.start + (Get(tokenizer).max_tokens
                                              - Get(tokenizer).overlap)
            /\ split'.start >= split.start + 1
            /\ Len(split'.res) = Len(split.res) + 1]_vars
    /\ [](split.pc = "loop" => Len(split.res) <= Len(split.toks))
    /\ (split.pc = "loop") ~> (split = NoSplit /\ last.op = "split_long_block")

\* a split with stride 1 that returned after five iterations
C25_Witness ==
    /\ last.op = "split_long_block"
    /\ last.max_tokens - last.overlap = 1
    /\ Len(last.res) = 5

DocIdsOf(history) == {history[i].doc_id : i \in 1..Len(history)}

\* C26: in every state of the bot a user's active document, when set, is the
\* doc_id of an entry of that user's history and no history holds a doc_id
\* twice; an upload, /use or /reset by one user leaves the active document
\* and the history of every other user as they were.
C26_SessionState ==
    /\ [](\A u \in Users :
            /\ user_docs[u] # None => Get(user_docs[u]) \in DocIdsOf(user_doc_history[u])
            /\ \A i, j \in 1..Len(user_doc_history[u]) :
                  user_doc_history[u][i].doc_id = user_doc_history[u][j].doc_id
                     => i = j)
    /\ [][\A u \in Users :
            last'.op \in {"handle_document", "cmd_use", "cmd_reset"}
            /\ last'.author_id # u =>
               /\ user_docs'[u] = user_docs[u]
               /\ user_doc_history'[u] = user_doc_history[u]]_vars

\* user 1 has two documents and went back to the first with /use while user 2
\* keeps the one document they uploaded
C26_Witness ==
    /\ last.op = "cmd_use"
    /\ last.author_id = 1
    /\ last.reply = "active"
    /\ Len(user_doc_history[1]) = 2
    /\ user_docs[1] = Some(user_doc_history[1][1].doc_id)
    /\ Len(user_doc_history[2]) = 1
    /\ user_docs[2] = Some(user_doc_history[2][1].doc_id)

====
